---- MODULE Spec2Model ----
(***************************************************************************)
(* qfinbox.tvm: the loan amortizer (loans.py) and the cash-flow analyzer   *)
(* (cashflow.py), with the validators they call (core/validators.py).      *)
(*                                                                         *)
(* Python floats are modelled as binary floating-point numbers of MantBits *)
(* significant bits, every operation rounding its exact result to nearest, *)
(* ties to even (IEEE-754 with a short significand and an unbounded        *)
(* exponent).  A float is <<m, e>>, of value m * 2^e, with m = 0 (and      *)
(* e = 0) or 2^(MantBits-1) <= |m| < 2^MantBits.                           *)
(***************************************************************************)
EXTENDS Integers, Sequences, FiniteSets, TLC

VARIABLES
    pc,         \* "idle", "irr_loop", "amort_loop" or "done"
    fn,         \* the function called
    args,       \* its arguments
    ret,        \* its outcome, once pc = "done"
    guessIdx,   \* internal_rate_of_return: index of the next seed, 1-based
    attempts,   \* internal_rate_of_return: the seed attempts so far (history)
    locals,     \* amortization_schedule: rate_per_period, total_payments, payment
    balance,    \* amortization_schedule: balance
    schedule,   \* amortization_schedule: schedule
    adjusted    \* amortization_schedule: per entry, did `if balance < 0` fire (history)

vars == <<pc, fn, args, ret, guessIdx, attempts, locals, balance, schedule, adjusted>>

----------------------------------------------------------------------------
(* Bounds of the model *)

MantBits == 8
MaxYearsHalves == 8
MaxPPY == 2
MaxFlows == 3

----------------------------------------------------------------------------
(* Floating point *)

Abs(n) == IF n < 0 THEN -n ELSE n

Sign(n) == IF n < 0 THEN -1 ELSE 1

BitLen(a) == CHOOSE k \in 0..30 : a < 2^k /\ (k = 0 \/ a >= 2^(k-1))

Zero == <<0, 0>>

\* n * 2^e rounded to MantBits significant bits, to nearest, ties to even
Norm(n, e) ==
    IF n = 0 THEN Zero
    ELSE LET a == Abs(n)
             L == BitLen(a)
         IN IF L <= MantBits
            THEN <<Sign(n) * a * 2^(MantBits - L), e - (MantBits - L)>>
            ELSE LET k    == L - MantBits
                     q    == a \div 2^k
                     rem  == a % 2^k
                     half == 2^(k-1)
                     up   == rem > half \/ (rem = half /\ q % 2 = 1)
                     q2   == IF up THEN q + 1 ELSE q
                 IN IF q2 = 2^MantBits
                    THEN <<Sign(n) * 2^(MantBits-1), e + k + 1>>
                    ELSE <<Sign(n) * q2, e + k>>

FromInt(n) == Norm(n, 0)

One == FromInt(1)

FNeg(x) == <<-x[1], x[2]>>

FMul(x, y) == Norm(x[1] * y[1], x[2] + y[2])

\* x has the larger exponent; an addend below a quarter of an ulp is absorbed
FAddOrdered(x, y) ==
    LET d == x[2] - y[2]
    IN IF d > MantBits + 2 THEN x ELSE Norm(x[1] * 2^d + y[1], y[2])

FAdd(x, y) ==
    IF x[1] = 0 THEN y
    ELSE IF y[1] = 0 THEN x
    ELSE IF x[2] >= y[2] THEN FAddOrdered(x, y) ELSE FAddOrdered(y, x)

FSub(x, y) == FAdd(x, FNeg(y))

\* y # 0; the quotient keeps MantBits + 2 bits and a sticky bit before rounding
FDiv(x, y) ==
    IF x[1] = 0 THEN Zero
    ELSE LET num == Abs(x[1]) * 2^(MantBits + 2)
             den == Abs(y[1])
             q   == num \div den
             st  == IF num % den = 0 THEN 0 ELSE 1
         IN Norm(Sign(x[1]) * Sign(y[1]) * (2 * q + st),
                 x[2] - y[2] - (MantBits + 2) - 1)

FLess(x, y) ==
    IF x[1] <= 0 /\ y[1] >= 0 THEN x[1] < y[1]
    ELSE IF x[1] >= 0 /\ y[1] <= 0 THEN FALSE
    ELSE IF x[1] > 0
         THEN x[2] < y[2] \/ (x[2] = y[2] /\ x[1] < y[1])
         ELSE x[2] > y[2] \/ (x[2] = y[2] /\ x[1] < y[1])

FLeq(x, y) == x = y \/ FLess(x, y)

FAbs(x) == <<Abs(x[1]), x[2]>>

\* int(x): truncation toward zero
Trunc(x) ==
    IF x[2] >= 0 THEN x[1] * 2^x[2]
    ELSE IF -x[2] >= MantBits THEN 0
    ELSE Sign(x[1]) * (Abs(x[1]) \div 2^(-x[2]))

IsIntegral(x) == x[2] >= 0 \/ (-x[2] < MantBits /\ x[1] % 2^(-x[2]) = 0)

\* the literal a/b, a decimal such as 0.05 = 5/100
Dec(a, b) == FDiv(FromInt(a), FromInt(b))

ISqrt(n) == CHOOSE r \in 0..2^(MantBits + 2) : r * r <= n /\ (r + 1) * (r + 1) > n

\* x > 0
FSqrt(x) ==
    LET s  == IF (x[2] - (MantBits + 2)) % 2 = 0 THEN MantBits + 2 ELSE MantBits + 3
        n  == x[1] * 2^s
        r  == ISqrt(n)
        st == IF r * r = n THEN 0 ELSE 1
    IN Norm(2 * r + st, ((x[2] - s) \div 2) - 1)

RECURSIVE PowInt(_, _)
PowInt(x, k) == IF k = 0 THEN One ELSE FMul(PowInt(x, k - 1), x)

\* x ** n for x > 0 and n >= 0 a multiple of 1/2
FPow(x, n) ==
    IF IsIntegral(n) THEN PowInt(x, Trunc(n))
    ELSE FMul(PowInt(x, Trunc(n)), FSqrt(x))

----------------------------------------------------------------------------
(* Python values and outcomes *)

PyFloat(f) == [t |-> "float", v |-> f]

PyInt(n) == [t |-> "int", v |-> FromInt(n)]

Value(f) == [kind |-> "value", v |-> f, exc |-> ""]

Raise(e) == [kind |-> "raise", v |-> Zero, exc |-> e]

NaN == [kind |-> "nan", v |-> Zero, exc |-> ""]

Inf == [kind |-> "inf", v |-> Zero, exc |-> ""]

NoRet == [kind |-> "none", v |-> Zero, exc |-> ""]

DataFrame == [kind |-> "frame", v |-> Zero, exc |-> ""]

\* float('nan'): a float that no comparison orders
PyNaN == [t |-> "nan", v |-> Zero]

\* a value that is neither int nor float
PyStr == [t |-> "str", v |-> Zero]

\* isinstance(value, (int, float)); the not-a-number float is a float
IsNumber(value) == value.t \in {"int", "float", "nan"}

\* `value <= 0`, FALSE when value is the not-a-number float
NonPositive(value) == value.t # "nan" /\ FLeq(value.v, Zero)

\* validators.py: TRUE when validate_positive returns, FALSE when it raises
validate_positive(value) == IsNumber(value) /\ ~NonPositive(value)

----------------------------------------------------------------------------
(* loans.py *)

LoanArgsValid(a) ==
    /\ validate_positive(a.principal)
    /\ validate_positive(a.annual_rate)
    /\ validate_positive(a.years)
    /\ validate_positive(a.payments_per_year)

rate_per_period(a) == FDiv(a.annual_rate.v, a.payments_per_year.v)

num_payments(a) == FMul(a.years.v, a.payments_per_year.v)

\* the return of loan_payment's zero-rate branch
ZeroRatePayment(a) ==
    IF num_payments(a) = Zero THEN Raise("ZeroDivisionError")
    ELSE Value(FDiv(a.principal.v, num_payments(a)))

\* the return of loan_payment's general formula
AnnuityPayment(a) ==
    LET r == rate_per_period(a)
        x == FPow(FAdd(One, r), num_payments(a))
    IN IF FSub(x, One) = Zero THEN Raise("ZeroDivisionError")
       ELSE Value(FDiv(FMul(a.principal.v, FMul(r, x)), FSub(x, One)))

loan_payment(a) ==
    IF ~LoanArgsValid(a) THEN Raise("ValidationError")
    ELSE IF rate_per_period(a) = Zero THEN ZeroRatePayment(a)
    ELSE AnnuityPayment(a)

\* the loop running one iteration too many
TotalPaymentsPlusOne(a) == Trunc(num_payments(a)) + 1

\* int(years * payments_per_year)
total_payments(a) == Trunc(num_payments(a))

Entry(payment, interest, principal, bal) ==
    [Payment |-> payment, Interest |-> interest, Principal |-> principal, Balance |-> bal]

\* one iteration of the loop of amortization_schedule, from balance b, with
\* the locals payment and rate_per_period
LoopBody(payment, rate, b) ==
    LET interest_payment  == FMul(b, rate)
        principal_payment == FSub(payment, interest_payment)
        b1                == FSub(b, principal_payment)
        neg               == FLess(b1, Zero)
    IN [entry |-> Entry(payment, interest_payment,
                        IF neg THEN FAdd(principal_payment, b1) ELSE principal_payment,
                        IF neg THEN Zero ELSE b1),
        adj   |-> neg]

\* the loop without its break
NeverBreak(b) == FALSE

\* `if balance == 0: break`
BreakCondition(b) == b = Zero

Principals == {7, 100, 1000, 2400}

AnnualRates == {<<0, 1>>, <<1, 20>>, <<1, 10>>, <<1, 2>>, <<1, 1>>, <<3, 1>>, <<5, 1>>}

LoanArgs ==
    { [principal |-> PyInt(p), annual_rate |-> PyFloat(Dec(r[1], r[2])),
       years |-> PyFloat(Dec(h, 2)), payments_per_year |-> PyInt(m)] :
      p \in Principals, r \in AnnualRates, h \in 1..MaxYearsHalves, m \in 1..MaxPPY }

IrrIdle == guessIdx = 0 /\ attempts = <<>>

NoLocals == [rate_per_period |-> Zero, total_payments |-> 0, payment |-> Zero]

AmortIdle == locals = NoLocals /\ balance = Zero /\ schedule = <<>> /\ adjusted = <<>>

LoanPaymentCall(a) ==
    /\ pc = "idle"
    /\ pc' = "done"
    /\ fn' = "loan_payment"
    /\ args' = a
    /\ ret' = loan_payment(a)
    /\ UNCHANGED <<guessIdx, attempts, locals, balance, schedule, adjusted>>

AmortCall(a) ==
    /\ pc = "idle"
    /\ fn' = "amortization_schedule"
    /\ args' = a
    /\ IF loan_payment(a).kind = "raise"
       THEN /\ pc' = "done"
            /\ ret' = loan_payment(a)
            /\ UNCHANGED <<locals, balance>>
       ELSE /\ pc' = "amort_loop"
            /\ ret' = NoRet
            /\ locals' = [rate_per_period |-> rate_per_period(a),
                          total_payments  |-> total_payments(a),
                          payment         |-> loan_payment(a).v]
            /\ balance' = a.principal.v
    /\ UNCHANGED <<guessIdx, attempts, schedule, adjusted>>

\* the rest of an iteration: the append and the break
AppendEntry(it) ==
    /\ balance' = it.entry.Balance
    /\ schedule' = Append(schedule, it.entry)
    /\ adjusted' = Append(adjusted, it.adj)
    /\ IF BreakCondition(it.entry.Balance)
       THEN pc' = "done" /\ ret' = DataFrame
       ELSE pc' = "amort_loop" /\ ret' = ret

AmortStep ==
    /\ pc = "amort_loop"
    /\ Len(schedule) < locals.total_payments
    /\ AppendEntry(LoopBody(locals.payment, locals.rate_per_period, balance))
    /\ UNCHANGED <<fn, args, guessIdx, attempts, locals>>

AmortLoopEnd ==
    /\ pc = "amort_loop"
    /\ Len(schedule) >= locals.total_payments
    /\ pc' = "done"
    /\ ret' = DataFrame
    /\ UNCHANGED <<fn, args, guessIdx, attempts, locals, balance, schedule, adjusted>>

----------------------------------------------------------------------------
(* cashflow.py *)

\* what fsolve hands to func: asarray(x0).flatten(), a numpy array
NdArray(f) == [t |-> "ndarray", v |-> f]

\* the non-finite values of numpy's division by zero: 1 for +inf, -1 for -inf, 0 for nan
RECURSIVE NonFiniteSum(_, _)
NonFiniteSum(cash_flows, n) ==
    IF n = 1 THEN {}
    ELSE NonFiniteSum(cash_flows, n - 1) \cup
         {IF cash_flows[n] > 0 THEN 1 ELSE IF cash_flows[n] < 0 THEN -1 ELSE 0}

\* np.sum(cash_flows[:n] / base ** periods[:n]), base # 0
RECURSIVE DiscountedSum(_, _, _)
DiscountedSum(cash_flows, base, n) ==
    IF n = 0 THEN Zero
    ELSE FAdd(DiscountedSum(cash_flows, base, n - 1),
              FDiv(FromInt(cash_flows[n]), PowInt(base, n - 1)))

\* a positivity check in place of the type check
DiscountRatePositive(discount_rate) == validate_positive(discount_rate)

\* `if not isinstance(discount_rate, (int, float))`
DiscountRateAccepted(discount_rate) == IsNumber(discount_rate)

\* the result for the not-a-number rate: nan ** 0 is 1, so the period-0 flow
\* is kept, and every later term is nan
NpvAtNaN(cash_flows) ==
    IF Len(cash_flows) = 1 THEN Value(FromInt(cash_flows[1])) ELSE NaN

net_present_value(cash_flows, discount_rate) ==
    IF ~DiscountRateAccepted(discount_rate) THEN Raise("ValueError")
    ELSE IF discount_rate = PyNaN THEN NpvAtNaN(cash_flows)
    ELSE LET base == FAdd(One, discount_rate.v)
             nf   == NonFiniteSum(cash_flows, Len(cash_flows))
         IN IF base # Zero \/ Len(cash_flows) <= 1
            THEN Value(DiscountedSum(cash_flows, base, Len(cash_flows)))
            ELSE IF 0 \in nf \/ {1, -1} \subseteq nf THEN NaN
            ELSE IF 1 \in nf THEN Inf
            ELSE [kind |-> "-inf", v |-> Zero, exc |-> ""]

npv_func(cash_flows, rate) == net_present_value(cash_flows, rate)

\* the literals of `guesses`: 0.05, 0.15, 0.25, -0.5, 0.5, 1.0
FixedGuesses ==
    <<Dec(5, 100), Dec(15, 100), Dec(25, 100), FNeg(Dec(5, 10)), Dec(5, 10), One>>

\* the list with two of its seeds exchanged
GuessesReordered(initial_guess) ==
    <<initial_guess, FixedGuesses[2], FixedGuesses[1], FixedGuesses[3],
      FixedGuesses[4], FixedGuesses[5], FixedGuesses[6]>>

\* guesses = [initial_guess, 0.05, 0.15, 0.25, -0.5, 0.5, 1.0]
Guesses(initial_guess) == <<initial_guess>> \o FixedGuesses

\* an except clause that misses ValueError
CaughtWithoutValueError == {"RuntimeError", "OverflowError"}

\* except (ValueError, RuntimeError, OverflowError)
CaughtExceptions == {"ValueError", "RuntimeError", "OverflowError"}

\* 1e-6
Tolerance == Dec(1, 1000000)

\* the roots a converged solver may report
SolverRoots == {FNeg(Dec(5, 10)), Zero, Dec(1, 10), Dec(1627, 10000), Dec(5, 10), One}

\* fsolve(npv_func, guess, full_output=True): scipy first evaluates func at the
\* array x0, and an exception of func leaves fsolve; otherwise it ends with
\* ier = 1 (converged, at some x) or with ier in 2..5 (not converged)
FsolveOutcomes(cash_flows, guess) ==
    LET first == npv_func(cash_flows, NdArray(guess))
    IN IF first.kind = "raise"
       THEN {[raised |-> first.exc, ier |-> 0, x |-> guess]}
       ELSE {[raised |-> "", ier |-> 1, x |-> r] : r \in SolverRoots}
            \cup {[raised |-> "", ier |-> i, x |-> guess] : i \in 2..5}

\* `abs(npv_func(result)) < 1e-6`, result a numpy.float64
ResidualSmall(cash_flows, result) ==
    LET res == npv_func(cash_flows, PyFloat(result))
    IN res.kind = "value" /\ FLess(FAbs(res.v), Tolerance)

\* the try block for one seed: "return", "next" or "escape"
SeedVerdict(cash_flows, out) ==
    IF out.raised # ""
    THEN IF out.raised \in CaughtExceptions THEN "next" ELSE "escape"
    ELSE IF out.ier = 1 /\ ResidualSmall(cash_flows, out.x) THEN "return"
    ELSE "next"

RECURSIVE CumSum(_, _)
CumSum(cash_flows, n) == IF n = 0 THEN 0 ELSE CumSum(cash_flows, n - 1) + cash_flows[n]

\* the periods whose cumulative sum is >= 0 in place of > 0
NonNegativeIndices(cash_flows) ==
    {t \in 0..(Len(cash_flows) - 1) : CumSum(cash_flows, t + 1) >= 0}

\* np.where(cumulative > 0)[0], as 0-based periods
positive_indices(cash_flows) ==
    {t \in 0..(Len(cash_flows) - 1) : CumSum(cash_flows, t + 1) > 0}

breakeven_period(cash_flows) ==
    CHOOSE t \in positive_indices(cash_flows) :
        \A u \in positive_indices(cash_flows) : t <= u

\* abs(prev_cumulative) / curr_cash_flow
fraction(cash_flows) ==
    LET b == breakeven_period(cash_flows)
    IN FDiv(FromInt(Abs(CumSum(cash_flows, b))), FromInt(cash_flows[b + 1]))

\* `return breakeven_period + fraction`
Interpolated(cash_flows) ==
    FAdd(FromInt(breakeven_period(cash_flows)), fraction(cash_flows))

payback_period(cash_flows) ==
    IF positive_indices(cash_flows) = {} THEN Inf
    ELSE IF breakeven_period(cash_flows) = 0 THEN Value(Zero)
    ELSE Value(Interpolated(cash_flows))

Example == <<-100000, 30000, 40000, 50000>>

Amounts == {-2, -1, 0, 1, 3}

CashFlowSeries ==
    {Example} \cup UNION {[1..n -> Amounts] : n \in 1..MaxFlows}

InitialGuesses == {Dec(1, 10), Dec(3, 10)}

IrrCall(cash_flows, initial_guess) ==
    /\ pc = "idle"
    /\ pc' = "irr_loop"
    /\ fn' = "internal_rate_of_return"
    /\ args' = [cash_flows |-> cash_flows, initial_guess |-> initial_guess]
    /\ guessIdx' = 1
    /\ UNCHANGED <<ret, attempts, locals, balance, schedule, adjusted>>

IrrTrySeed ==
    /\ pc = "irr_loop"
    /\ guessIdx <= Len(Guesses(args.initial_guess))
    /\ LET guess == Guesses(args.initial_guess)[guessIdx]
       IN \E out \in FsolveOutcomes(args.cash_flows, guess) :
            LET verdict == SeedVerdict(args.cash_flows, out)
            IN /\ attempts' = Append(attempts, [guess |-> guess, out |-> out, verdict |-> verdict])
               /\ guessIdx' = guessIdx + 1
               /\ pc' = IF verdict = "next" THEN "irr_loop" ELSE "done"
               /\ ret' = IF verdict = "return" THEN Value(out.x)
                         ELSE IF verdict = "escape" THEN Raise(out.raised)
                         ELSE ret
    /\ UNCHANGED <<fn, args, locals, balance, schedule, adjusted>>

\* the fall-through returning the number 0 in place of np.nan
IrrNoSolutionZero ==
    /\ pc = "irr_loop"
    /\ guessIdx > Len(Guesses(args.initial_guess))
    /\ pc' = "done"
    /\ ret' = Value(Zero)
    /\ UNCHANGED <<fn, args, guessIdx, attempts, locals, balance, schedule, adjusted>>

\* `return np.nan`, after the loop over the seeds
IrrNoSolution ==
    /\ pc = "irr_loop"
    /\ guessIdx > Len(Guesses(args.initial_guess))
    /\ pc' = "done"
    /\ ret' = NaN
    /\ UNCHANGED <<fn, args, guessIdx, attempts, locals, balance, schedule, adjusted>>

PaybackCall(cash_flows) ==
    /\ pc = "idle"
    /\ pc' = "done"
    /\ fn' = "payback_period"
    /\ args' = [cash_flows |-> cash_flows, initial_guess |-> Zero]
    /\ ret' = payback_period(cash_flows)
    /\ UNCHANGED <<guessIdx, attempts, locals, balance, schedule, adjusted>>

----------------------------------------------------------------------------
(* bonds.py *)

\* a parameter the caller did not pass
PyNone == [t |-> "none", v |-> Zero]

\* x ** -n for an int n >= 0
PowNeg(x, n) == FDiv(One, PowInt(x, n))

\* the five validate_positive calls of bond_price, with the yield ytm
BondArgsValid(b, ytm) ==
    /\ validate_positive(b.face_value)
    /\ validate_positive(b.coupon_rate)
    /\ validate_positive(b.years_to_maturity)
    /\ validate_positive(ytm)
    /\ validate_positive(b.payments_per_year)

\* periods = int(years_to_maturity * payments_per_year)
periods(b) == Trunc(FMul(b.years_to_maturity.v, b.payments_per_year.v))

\* coupon_payment = face_value * coupon_rate / payments_per_year
coupon_payment(b) == FDiv(FMul(b.face_value.v, b.coupon_rate.v), b.payments_per_year.v)

\* discount_rate = yield_to_maturity / payments_per_year
discount_rate(b, ytm) == FDiv(ytm.v, b.payments_per_year.v)

\* pv_coupons + pv_face, from the locals n, cp and dr
PriceFormula(face, n, cp, dr) ==
    LET pv_coupons == FDiv(FMul(cp, FSub(One, PowNeg(FAdd(One, dr), n))), dr)
        pv_face    == FDiv(face, PowInt(FAdd(One, dr), n))
    IN FAdd(pv_coupons, pv_face)

bond_price(b, ytm) ==
    IF ~BondArgsValid(b, ytm) THEN Raise("ValidationError")
    ELSE Value(PriceFormula(b.face_value.v, periods(b), coupon_payment(b),
                            discount_rate(b, ytm)))

\* price_diff(ytm) of bond_yield_to_maturity; ytm is a float of the bracket
price_diff(b, price, ytm) == FSub(bond_price(b, PyFloat(ytm)).v, price.v)

\* the ends of the bracket, brentq(price_diff, 0.001, 1.0)
BracketLow == Dec(1, 1000)

BracketHigh == One

\* the points of the bracket at which the model lets the solver stop
BracketGrid ==
    <<BracketLow, Dec(1, 100), Dec(2, 100), Dec(5, 100), Dec(1, 10), Dec(2, 10),
      Dec(5, 10), BracketHigh>>

\* the values of price_diff on the grid
GridDiffs(b, price) == [i \in 1..Len(BracketGrid) |-> price_diff(b, price, BracketGrid[i])]

\* brentq with the end values fa and fb and the grid values f: an end where f
\* is 0 is returned at once; equal signs at the ends raise ValueError("f(a) and
\* f(b) must have different signs"); otherwise the solver stops at an end of
\* some interval on which f changes sign
BrentqOutcomes(f) ==
    LET n == Len(BracketGrid)
    IN IF f[1] = Zero THEN {Value(BracketGrid[1])}
       ELSE IF f[n] = Zero THEN {Value(BracketGrid[n])}
       ELSE IF Sign(f[1][1]) = Sign(f[n][1]) THEN {Raise("ValueError")}
       ELSE {Value(BracketGrid[j]) :
               j \in {i \in 1..n : \E k \in {i - 1, i} :
                         /\ k \in 1..(n - 1)
                         /\ (f[k] = Zero \/ f[k + 1] = Zero
                               \/ Sign(f[k][1]) # Sign(f[k + 1][1]))}}

\* the five validate_positive calls of bond_yield_to_maturity
YtmArgsValid(b, price) ==
    /\ validate_positive(price)
    /\ validate_positive(b.face_value)
    /\ validate_positive(b.coupon_rate)
    /\ validate_positive(b.years_to_maturity)
    /\ validate_positive(b.payments_per_year)

bond_yield_to_maturity(b, price) ==
    IF ~YtmArgsValid(b, price) THEN {Raise("ValidationError")}
    ELSE BrentqOutcomes(GridDiffs(b, price))

FaceValues == {100, 1000}

CouponRates == {<<1, 20>>, <<1, 10>>}

Yields == {<<1, 2000>>, <<1, 100>>, <<1, 20>>, <<1, 10>>, <<1, 2>>, <<3, 2>>}

Prices == {50, 100, 1000, 2000}

Bonds ==
    { [face_value |-> PyInt(f), coupon_rate |-> PyFloat(Dec(c[1], c[2])),
       years_to_maturity |-> PyFloat(Dec(h, 2)), payments_per_year |-> PyInt(m)] :
      f \in FaceValues, c \in CouponRates, h \in 1..MaxYearsHalves, m \in 1..MaxPPY }

\* the call's arguments as one record
BondCallArgs(b, price, ytm) ==
    [price |-> price, face_value |-> b.face_value, coupon_rate |-> b.coupon_rate,
     years_to_maturity |-> b.years_to_maturity, yield_to_maturity |-> ytm,
     payments_per_year |-> b.payments_per_year]

BondPriceCall(b, ytm) ==
    /\ pc = "idle"
    /\ pc' = "done"
    /\ fn' = "bond_price"
    /\ args' = BondCallArgs(b, PyNone, ytm)
    /\ ret' = bond_price(b, ytm)
    /\ UNCHANGED <<guessIdx, attempts, locals, balance, schedule, adjusted>>

BondYtmCall(b, price) ==
    /\ pc = "idle"
    /\ pc' = "done"
    /\ fn' = "bond_yield_to_maturity"
    /\ args' = BondCallArgs(b, price, PyNone)
    /\ ret' \in bond_yield_to_maturity(b, price)
    /\ UNCHANGED <<guessIdx, attempts, locals, balance, schedule, adjusted>>

\* bond_yield_to_maturity(bond_price(face, coupon, years, ytm, ppy), face,
\* coupon, years, ppy): the second call of the round trip, on the price the
\* first call returned; args keeps the yield the price was computed from
BondYtmOfPrice ==
    /\ pc = "done"
    /\ fn = "bond_price"
    /\ ret.kind = "value"
    /\ pc' = "done"
    /\ fn' = "bond_yield_to_maturity"
    /\ args' = [args EXCEPT !.price = PyFloat(ret.v)]
    /\ ret' \in bond_yield_to_maturity(args, PyFloat(ret.v))
    /\ UNCHANGED <<guessIdx, attempts, locals, balance, schedule, adjusted>>

\* the locals of bond_duration before its loop
DurationLocals(b, ytm) ==
    [periods |-> periods(b), coupon_payment |-> coupon_payment(b),
     discount_rate |-> discount_rate(b, ytm), bond_px |-> bond_price(b, ytm).v,
     face_value |-> b.face_value.v, payments_per_year |-> b.payments_per_year.v]

\* the cash flow of period t: the coupon, and the face value with the last one
cash_flow(l, t) ==
    IF t < l.periods THEN l.coupon_payment ELSE FAdd(l.coupon_payment, l.face_value)

\* weight = pv_cash_flow / bond_px
weight(l, t) ==
    FDiv(FDiv(cash_flow(l, t), PowInt(FAdd(One, l.discount_rate), t)), l.bond_px)

\* weighted_time after the iterations 1..t of the loop
RECURSIVE weighted_time(_, _)
weighted_time(l, t) ==
    IF t = 0 THEN Zero
    ELSE FAdd(weighted_time(l, t - 1),
              FMul(weight(l, t), FDiv(FromInt(t), l.payments_per_year)))

bond_duration(b, ytm) ==
    IF ~BondArgsValid(b, ytm) THEN Raise("ValidationError")
    ELSE Value(weighted_time(DurationLocals(b, ytm), periods(b)))

BondDurationCall(b, ytm) ==
    /\ pc = "idle"
    /\ pc' = "done"
    /\ fn' = "bond_duration"
    /\ args' = BondCallArgs(b, PyNone, ytm)
    /\ ret' = bond_duration(b, ytm)
    /\ UNCHANGED <<guessIdx, attempts, locals, balance, schedule, adjusted>>

----------------------------------------------------------------------------
(* the validate_positive calls that open the operations of basic.py,
   annuities.py, bonds.py, loans.py and cashflow.py *)

\* The tables below give, for each operation: params, its numeric parameters
\* as the signature names them; body, the operation whose validate_positive
\* calls run first when it is called (itself, or the one it calls first);
\* checked, the positions of its own parameters that it passes to
\* validate_positive, in the order of the calls.

\* basic.py
BasicOps ==
    [future_value |->
         [params |-> <<"present_value", "rate", "periods", "compounding_frequency">>,
          body |-> "future_value", checked |-> <<1, 2, 3, 4>>],
     present_value |->
         [params |-> <<"future_value", "rate", "periods", "compounding_frequency">>,
          body |-> "present_value", checked |-> <<1, 2, 3, 4>>],
     compound_interest |->
         [params |-> <<"principal", "rate", "periods", "compounding_frequency">>,
          body |-> "future_value", checked |-> <<>>],
     effective_rate |->
         [params |-> <<"nominal_rate", "compounding_frequency">>,
          body |-> "effective_rate", checked |-> <<1, 2>>],
     nominal_rate |->
         [params |-> <<"effective_rate", "compounding_frequency">>,
          body |-> "nominal_rate", checked |-> <<1, 2>>],
     continuous_compounding_fv |->
         [params |-> <<"present_value", "rate", "time">>,
          body |-> "continuous_compounding_fv", checked |-> <<1, 2, 3>>],
     continuous_compounding_pv |->
         [params |-> <<"future_value", "rate", "time">>,
          body |-> "continuous_compounding_pv", checked |-> <<1, 2, 3>>]]

\* annuities.py
AnnuityOps ==
    [ordinary_annuity_pv |->
         [params |-> <<"payment", "rate", "periods">>,
          body |-> "ordinary_annuity_pv", checked |-> <<1, 2, 3>>],
     ordinary_annuity_fv |->
         [params |-> <<"payment", "rate", "periods">>,
          body |-> "ordinary_annuity_fv", checked |-> <<1, 2, 3>>],
     annuity_due_pv |->
         [params |-> <<"payment", "rate", "periods">>,
          body |-> "ordinary_annuity_pv", checked |-> <<>>],
     annuity_due_fv |->
         [params |-> <<"payment", "rate", "periods">>,
          body |-> "ordinary_annuity_fv", checked |-> <<>>],
     annuity_pv |->
         [params |-> <<"payment", "rate", "periods">>,
          body |-> "ordinary_annuity_pv", checked |-> <<>>],
     annuity_fv |->
         [params |-> <<"payment", "rate", "periods">>,
          body |-> "ordinary_annuity_fv", checked |-> <<>>]]

\* bonds.py
BondOps ==
    [bond_price |->
         [params |-> <<"face_value", "coupon_rate", "years_to_maturity", "yield_to_maturity", "payments_per_year">>,
          body |-> "bond_price", checked |-> <<1, 2, 3, 4, 5>>],
     bond_yield_to_maturity |->
         [params |-> <<"price", "face_value", "coupon_rate", "years_to_maturity", "payments_per_year">>,
          body |-> "bond_yield_to_maturity", checked |-> <<1, 2, 3, 4, 5>>],
     bond_duration |->
         [params |-> <<"face_value", "coupon_rate", "years_to_maturity", "yield_to_maturity", "payments_per_year">>,
          body |-> "bond_duration", checked |-> <<1, 2, 3, 4, 5>>],
     bond_modified_duration |->
         [params |-> <<"face_value", "coupon_rate", "years_to_maturity", "yield_to_maturity", "payments_per_year">>,
          body |-> "bond_duration", checked |-> <<>>],
     bond_convexity |->
         [params |-> <<"face_value", "coupon_rate", "years_to_maturity", "yield_to_maturity", "payments_per_year">>,
          body |-> "bond_convexity", checked |-> <<1, 2, 3, 4, 5>>]]

\* loans.py
LoanOps ==
    [loan_payment |->
         [params |-> <<"principal", "annual_rate", "years", "payments_per_year">>,
          body |-> "loan_payment", checked |-> <<1, 2, 3, 4>>],
     loan_balance |->
         [params |-> <<"principal", "annual_rate", "years", "payments_made", "payments_per_year">>,
          body |-> "loan_balance", checked |-> <<1, 2, 3, 4, 5>>],
     total_interest_paid |->
         [params |-> <<"principal", "annual_rate", "years", "payments_per_year">>,
          body |-> "loan_payment", checked |-> <<>>],
     amortization_schedule |->
         [params |-> <<"principal", "annual_rate", "years", "payments_per_year">>,
          body |-> "amortization_schedule", checked |-> <<1, 2, 3, 4>>]]

\* cashflow.py: the operations that call validate_positive
CashFlowOps ==
    [discounted_payback_period |->
         [params |-> <<"discount_rate">>,
          body |-> "discounted_payback_period", checked |-> <<1>>],
     profitability_index |->
         [params |-> <<"discount_rate">>,
          body |-> "profitability_index", checked |-> <<1>>]]

\* the operations of the package that have positivity preconditions
TvmOps == BasicOps @@ AnnuityOps @@ BondOps @@ LoanOps @@ CashFlowOps

Operations == DOMAIN TvmOps

\* what an operation returns or raises once its checks have passed; which
\* number or arithmetic error it is plays no part in the checks
Computed == [kind |-> "computed", v |-> Zero, exc |-> ""]

\* the outcome of calling op with the argument values a, one per parameter
CheckedOutcome(op, a) ==
    LET checked == TvmOps[TvmOps[op].body].checked
    IN IF \E i \in 1..Len(checked) : ~validate_positive(a[checked[i]])
       THEN Raise("ValidationError")
       ELSE Computed

\* the values passed for a parameter: a valid one, zero, a negative one, a
\* string and the not-a-number float
PyValues == {PyInt(2), PyInt(0), PyFloat(FNeg(Dec(1, 2))), PyStr, PyNaN}

CheckedCall(op, a) ==
    /\ pc = "idle"
    /\ pc' = "done"
    /\ fn' = "checked_operation"
    /\ args' = [op |-> op, values |-> a]
    /\ ret' = CheckedOutcome(op, a)
    /\ UNCHANGED <<guessIdx, attempts, locals, balance, schedule, adjusted>>

----------------------------------------------------------------------------
(* cashflow.py: calls of net_present_value and profitability_index *)

\* the discount rates passed to net_present_value: 10%, 0, -50%, -100% (as a
\* float and as an int), -200%, a string, an array and the not-a-number float
NpvRates ==
    {PyFloat(Dec(1, 10)), PyInt(0), PyFloat(FNeg(Dec(1, 2))), PyFloat(FNeg(One)),
     PyInt(-1), PyInt(-2), PyStr, NdArray(Dec(1, 10)), PyNaN}

NpvCall(cash_flows, rate) ==
    /\ pc = "idle"
    /\ pc' = "done"
    /\ fn' = "net_present_value"
    /\ args' = [cash_flows |-> cash_flows, discount_rate |-> rate]
    /\ ret' = net_present_value(cash_flows, rate)
    /\ UNCHANGED <<guessIdx, attempts, locals, balance, schedule, adjusted>>

\* np.sum(future_cf / base ** periods) over the periods 1..n-1
RECURSIVE PvFuture(_, _, _)
PvFuture(cash_flows, base, n) ==
    IF n <= 1 THEN Zero
    ELSE FAdd(PvFuture(cash_flows, base, n - 1),
              FDiv(FromInt(cash_flows[n]), PowInt(base, n - 1)))

\* pv_future_cf / initial_investment on numpy scalars: a zero divisor gives
\* inf, -inf or nan with a warning, no exception
NumpyQuotient(pv, initial_investment) ==
    IF initial_investment # 0 THEN Value(FDiv(pv, FromInt(initial_investment)))
    ELSE IF pv = Zero THEN NaN
    ELSE IF FLess(Zero, pv) THEN Inf
    ELSE [kind |-> "-inf", v |-> Zero, exc |-> ""]

profitability_index(cash_flows, rate) ==
    IF ~validate_positive(rate) THEN Raise("ValidationError")
    ELSE NumpyQuotient(PvFuture(cash_flows, FAdd(One, rate.v), Len(cash_flows)),
                       Abs(cash_flows[1]))

\* the discount rates passed to profitability_index: 10%, 50% and 0
IndexRates == {PyFloat(Dec(1, 10)), PyFloat(Dec(1, 2)), PyInt(0)}

ProfitabilityIndexCall(cash_flows, rate) ==
    /\ pc = "idle"
    /\ pc' = "done"
    /\ fn' = "profitability_index"
    /\ args' = [cash_flows |-> cash_flows, discount_rate |-> rate]
    /\ ret' = profitability_index(cash_flows, rate)
    /\ UNCHANGED <<guessIdx, attempts, locals, balance, schedule, adjusted>>

----------------------------------------------------------------------------
(* loans.py: loan_balance *)

\* the five validate_positive calls of loan_balance
BalanceArgsValid(a) ==
    /\ validate_positive(a.principal)
    /\ validate_positive(a.annual_rate)
    /\ validate_positive(a.years)
    /\ validate_positive(a.payments_made)
    /\ validate_positive(a.payments_per_year)

\* `payments_made >= total_payments`, total_payments = years * payments_per_year
AllPaymentsMade(a) == FLeq(num_payments(a), a.payments_made.v)

\* payment * (1 - (1 + rate_per_period) ** -remaining_payments) / rate_per_period
RemainingAnnuity(payment, rate, remaining_payments) ==
    FDiv(FMul(payment, FSub(One, FDiv(One, FPow(FAdd(One, rate), remaining_payments)))),
         rate)

\* loan_balance after its checks and its early return, with the payment that
\* loan_payment returned or the exception it raised
BalanceFromPayment(a, payment) ==
    IF payment.kind = "raise" THEN payment
    ELSE IF rate_per_period(a) = Zero
    THEN Value(FSub(a.principal.v, FMul(payment.v, a.payments_made.v)))
    ELSE Value(RemainingAnnuity(payment.v, rate_per_period(a),
                                FSub(num_payments(a), a.payments_made.v)))

loan_balance(a) ==
    IF ~BalanceArgsValid(a) THEN Raise("ValidationError")
    ELSE IF AllPaymentsMade(a) THEN Value(Zero)
    ELSE BalanceFromPayment(a, loan_payment(a))

\* the rates of AnnualRates and one that the floats cannot add to 1
BalanceRates == AnnualRates \cup {<<1, 2^(MantBits + 2)>>}

PaymentsMade == 0..(MaxYearsHalves + 1)

BalanceArgs ==
    { [principal |-> PyInt(p), annual_rate |-> PyFloat(Dec(r[1], r[2])),
       years |-> PyFloat(Dec(h, 2)), payments_made |-> PyInt(k),
       payments_per_year |-> PyInt(m)] :
      p \in {1000}, r \in BalanceRates, h \in 1..MaxYearsHalves, k \in PaymentsMade,
      m \in 1..MaxPPY }

LoanBalanceCall(a) ==
    /\ pc = "idle"
    /\ pc' = "done"
    /\ fn' = "loan_balance"
    /\ args' = a
    /\ ret' = loan_balance(a)
    /\ UNCHANGED <<guessIdx, attempts, locals, balance, schedule, adjusted>>

----------------------------------------------------------------------------
(* annuities.py *)

MaxPeriods == 4

\* the three validate_positive calls of the ordinary annuity functions
AnnuityArgsValid(q) ==
    /\ validate_positive(q.payment)
    /\ validate_positive(q.rate)
    /\ validate_positive(q.periods)

\* payment * (1 - (1 + rate) ** -periods) / rate
ordinary_annuity_pv(q) ==
    IF ~AnnuityArgsValid(q) THEN Raise("ValidationError")
    ELSE Value(FDiv(FMul(q.payment.v,
                         FSub(One, PowNeg(FAdd(One, q.rate.v), Trunc(q.periods.v)))),
                    q.rate.v))

\* payment * (((1 + rate) ** periods - 1) / rate)
ordinary_annuity_fv(q) ==
    IF ~AnnuityArgsValid(q) THEN Raise("ValidationError")
    ELSE Value(FMul(q.payment.v,
                    FDiv(FSub(PowInt(FAdd(One, q.rate.v), Trunc(q.periods.v)), One),
                         q.rate.v)))

\* the result of the ordinary function times (1 + rate); its exception passes
TimesOnePlusRate(ordinary, q) ==
    IF ordinary.kind = "raise" THEN ordinary
    ELSE Value(FMul(ordinary.v, FAdd(One, q.rate.v)))

\* the due value derived anew, payment * ((1 - (1 + rate) ** -periods) * (1 + rate)) / rate
DuePvRederived(q) ==
    IF ~AnnuityArgsValid(q) THEN Raise("ValidationError")
    ELSE Value(FDiv(FMul(q.payment.v,
                         FMul(FSub(One, PowNeg(FAdd(One, q.rate.v), Trunc(q.periods.v))),
                              FAdd(One, q.rate.v))),
                    q.rate.v))

annuity_due_pv(q) == TimesOnePlusRate(ordinary_annuity_pv(q), q)

annuity_due_fv(q) == TimesOnePlusRate(ordinary_annuity_fv(q), q)

annuity_pv(q) == IF q.due THEN annuity_due_pv(q) ELSE ordinary_annuity_pv(q)

annuity_fv(q) == IF q.due THEN annuity_due_fv(q) ELSE ordinary_annuity_fv(q)

Payments == {7, 100}

AnnuityRates == {<<0, 1>>, <<1, 20>>, <<1, 10>>, <<1, 3>>}

\* the arguments of the annuity functions; due is read by annuity_pv and
\* annuity_fv only
AnnuityArgs ==
    { [payment |-> PyInt(p), rate |-> PyFloat(Dec(r[1], r[2])), periods |-> PyInt(n),
       due |-> d] :
      p \in Payments, r \in AnnuityRates, n \in 1..MaxPeriods, d \in BOOLEAN }

\* a call of the function name that returns or raises result
CallReturns(name, a, result) ==
    /\ pc = "idle"
    /\ pc' = "done"
    /\ fn' = name
    /\ args' = a
    /\ ret' = result
    /\ UNCHANGED <<guessIdx, attempts, locals, balance, schedule, adjusted>>

OrdinaryAnnuityPvCall(q) == CallReturns("ordinary_annuity_pv", q, ordinary_annuity_pv(q))

OrdinaryAnnuityFvCall(q) == CallReturns("ordinary_annuity_fv", q, ordinary_annuity_fv(q))

AnnuityDuePvCall(q) == CallReturns("annuity_due_pv", q, annuity_due_pv(q))

AnnuityDueFvCall(q) == CallReturns("annuity_due_fv", q, annuity_due_fv(q))

AnnuityPvCall(q) == CallReturns("annuity_pv", q, annuity_pv(q))

AnnuityFvCall(q) == CallReturns("annuity_fv", q, annuity_fv(q))

----------------------------------------------------------------------------

Init ==
    /\ pc = "idle"
    /\ fn = "none"
    /\ args = [none |-> TRUE]
    /\ ret = NoRet
    /\ IrrIdle
    /\ AmortIdle

Next ==
    \/ \E a \in LoanArgs : LoanPaymentCall(a)
    \/ \E a \in LoanArgs : AmortCall(a)
    \/ AmortStep
    \/ AmortLoopEnd
    \/ \E cf \in CashFlowSeries, g \in InitialGuesses : IrrCall(cf, g)
    \/ IrrTrySeed
    \/ IrrNoSolution
    \/ \E cf \in CashFlowSeries : PaybackCall(cf)
    \/ \E b \in Bonds, y \in Yields : BondPriceCall(b, PyFloat(Dec(y[1], y[2])))
    \/ \E b \in Bonds, p \in Prices : BondYtmCall(b, PyInt(p))
    \/ BondYtmOfPrice
    \/ \E b \in Bonds, y \in Yields : BondDurationCall(b, PyFloat(Dec(y[1], y[2])))
    \/ \E a \in BalanceArgs : LoanBalanceCall(a)
    \/ \E q \in AnnuityArgs : OrdinaryAnnuityPvCall(q)
    \/ \E q \in AnnuityArgs : OrdinaryAnnuityFvCall(q)
    \/ \E q \in AnnuityArgs : AnnuityDuePvCall(q)
    \/ \E q \in AnnuityArgs : AnnuityDueFvCall(q)
    \/ \E q \in AnnuityArgs : AnnuityPvCall(q)
    \/ \E q \in AnnuityArgs : AnnuityFvCall(q)
    \/ \E cf \in CashFlowSeries, r \in NpvRates : NpvCall(cf, r)
    \/ \E cf \in CashFlowSeries, r \in IndexRates : ProfitabilityIndexCall(cf, r)
    \/ pc = "idle" /\ \E op \in Operations :
           \E a \in [1..Len(TvmOps[op].params) -> PyValues] : CheckedCall(op, a)

Spec == Init /\ [][Next]_vars


----------------------------------------------------------------------------
(* Properties *)

IsIrr == fn = "internal_rate_of_return"

IsAmort == fn = "amortization_schedule"

Returned == pc = "done"

\* the seed list of the specification, in its order
SeedList(initial_guess) ==
    <<initial_guess, Dec(5, 100), Dec(15, 100), Dec(25, 100),
      FNeg(Dec(5, 10)), Dec(5, 10), One>>

\* the attempt ended with the solver's convergence flag set and |NPV(root)| < 1e-6
Succeeded(at) ==
    /\ at.out.raised = ""
    /\ at.out.ier = 1
    /\ ResidualSmall(args.cash_flows, at.out.x)

C2_ExampleRate ==
    (IsIrr /\ Returned /\ args.cash_flows = Example /\ args.initial_guess = Dec(1, 10)) =>
        /\ ret.kind = "value"
        /\ FLess(Dec(162, 1000), ret.v)
        /\ FLess(ret.v, Dec(163, 1000))

IsPayback == fn = "payback_period"

\* C3: when the cumulative sum first becomes positive at period b > 0,
\* payback_period returns (b - 1) + fraction, fraction = |cumulative at b-1| /
\* cash_flow at b; for [-100000, 30000, 40000, 50000] that is 2.6.
C3_PreviousPeriodPlusFraction ==
    (IsPayback /\ Returned /\ positive_indices(args.cash_flows) # {}
       /\ breakeven_period(args.cash_flows) > 0) =>
        /\ ret = Value(FAdd(FromInt(breakeven_period(args.cash_flows) - 1),
                            fraction(args.cash_flows)))
        /\ args.cash_flows = Example =>
               FLess(Dec(259, 100), ret.v) /\ FLess(ret.v, Dec(261, 100))

RECURSIVE SumPrincipal(_, _)
SumPrincipal(s, n) ==
    IF n = 0 THEN Zero ELSE FAdd(SumPrincipal(s, n - 1), s[n].Principal)

\* |x - y| <= |y| / 2^(MantBits - 4): a few units in the last place per entry
Close(x, y) == FLeq(FAbs(FSub(x, y)), FMul(FAbs(y), <<2^(MantBits - 1), 5 - 2 * MantBits>>))

\* C4: for valid loan parameters (non-integer years included) the final entry
\* of the schedule has Balance exactly 0 and the Principal column sums to the
\* loan principal within rounding tolerance.
C4_FinalBalanceZero ==
    (IsAmort /\ Returned /\ ret.kind = "frame") =>
        /\ schedule # <<>>
        /\ schedule[Len(schedule)].Balance = Zero
        /\ Close(SumPrincipal(schedule, Len(schedule)), args.principal.v)

\* the balance before entry i
BalanceBefore(i) == IF i = 1 THEN args.principal.v ELSE schedule[i - 1].Balance

\* C5: in every schedule, Balance is never negative and never increases from
\* one entry to the next, and the first Balance does not exceed the principal.
C5_BalanceNonIncreasing ==
    IsAmort =>
        \A i \in 1..Len(schedule) :
            /\ ~FLess(schedule[i].Balance, Zero)
            /\ FLeq(schedule[i].Balance, BalanceBefore(i))

\* C6: every entry other than the last has Interest = previous balance x
\* periodic rate and Principal = Payment - Interest (Interest + Principal =
\* Payment, as the float subtraction gives it), and the adjustment that forces
\* the balance to 0 is applied to no entry that another entry follows.
C6_AdjustmentOnlyLast ==
    IsAmort =>
        \A i \in 1..(Len(schedule) - 1) :
            /\ ~adjusted[i]
            /\ schedule[i].Payment = loan_payment(args).v
            /\ schedule[i].Interest =
                   FMul(BalanceBefore(i), FDiv(args.annual_rate.v, args.payments_per_year.v))
            /\ schedule[i].Principal = FSub(schedule[i].Payment, schedule[i].Interest)
            /\ schedule[i].Balance = FSub(BalanceBefore(i), schedule[i].Principal)

\* a returned schedule of several entries whose last entry was adjusted
C6_Witness ==
    /\ IsAmort
    /\ Returned
    /\ Len(schedule) >= 3
    /\ adjusted[Len(schedule)]
    /\ schedule[Len(schedule)].Principal #
           FSub(schedule[Len(schedule)].Payment, schedule[Len(schedule)].Interest)

\* floor(x * y) computed exactly, for x, y > 0
ExactFloorProduct(x, y) ==
    IF x[2] + y[2] >= 0 THEN x[1] * y[1] * 2^(x[2] + y[2])
    ELSE (x[1] * y[1]) \div 2^(-(x[2] + y[2]))

ContractualCount == ExactFloorProduct(args.years.v, args.payments_per_year.v)

\* C7: the loop of amortization_schedule terminates: every step of the loop
\* either returns or appends one entry, and the schedule never holds more than
\* floor(years x payments_per_year) entries; no entry follows an entry whose
\* Balance is 0, and fewer entries than that count are returned only when the
\* balance is 0.
C7_LoopTerminates ==
    /\ [](IsAmort =>
            /\ Len(schedule) <= ContractualCount
            /\ \A i \in 1..(Len(schedule) - 1) : schedule[i].Balance # Zero
            /\ (Returned /\ ret.kind = "frame" /\ Len(schedule) < ContractualCount) =>
                   (schedule # <<>> /\ schedule[Len(schedule)].Balance = Zero))
    /\ [][pc = "amort_loop" =>
            \/ pc' = "done" /\ ret'.kind = "frame"
            \/ pc' = "amort_loop" /\ Len(schedule') = Len(schedule) + 1]_vars

\* a schedule that ended before the contractual count, on a zero balance
C7_Witness ==
    /\ IsAmort
    /\ Returned
    /\ schedule # <<>>
    /\ Len(schedule) < ContractualCount
    /\ balance = Zero

\* C8: loan_payment with annual_rate = 0 and the other parameters valid
\* returns principal / total_payments.
C8_ZeroRateReturnsDivision ==
    (fn = "loan_payment" /\ Returned /\ args.annual_rate.v = Zero) =>
        ret = Value(FDiv(args.principal.v, FMul(args.years.v, args.payments_per_year.v)))

\* C9: whenever internal_rate_of_return reports a rate, |NPV(cash_flows, rate)|
\* < 1e-6.  (No reachable state reports a rate: see C2.)
C9_ReportedRateIsRoot ==
    (IsIrr /\ Returned /\ ret.kind = "value") =>
        ResidualSmall(args.cash_flows, ret.v)

\* C10: an exception raised while solving from one seed never reaches the
\* caller; it fails that seed only: the next seed is tried, or, after the last
\* seed, the no-solution outcome is returned.
C10_SeedExceptionsCaught ==
    IsIrr =>
        /\ ret.kind # "raise"
        /\ \A i \in 1..Len(attempts) :
               attempts[i].out.raised # "" =>
                   \/ Len(attempts) > i
                   \/ pc = "irr_loop" /\ guessIdx = i + 1
                   \/ i = 7 /\ Returned /\ ret = NaN

\* a seed attempt raised and the next seed was tried
C10_Witness ==
    /\ IsIrr
    /\ Len(attempts) >= 2
    /\ attempts[1].out.raised = "ValueError"
    /\ attempts[2].guess = Dec(5, 100)

\* C11: when no seed attempt both converged and had |NPV(root)| < 1e-6,
\* internal_rate_of_return returns the no-solution outcome (not-a-number): not
\* zero, not any other number, and not an exception.
C11_NoSolutionIsNaN ==
    (IsIrr /\ Returned /\ \A i \in 1..Len(attempts) : ~Succeeded(attempts[i])) =>
        /\ ret.kind = "nan"
        /\ ret.kind \notin {"value", "raise", "inf", "-inf"}

\* all seven seeds failed for a series whose rate of return is 50%, and
\* not-a-number came back
C11_Witness ==
    /\ IsIrr
    /\ Returned
    /\ args.cash_flows = <<-2, 3>>
    /\ Len(attempts) = 7
    /\ \A i \in 1..7 : ~Succeeded(attempts[i])
    /\ ret.kind = "nan"

\* no cumulative sum of the series is strictly positive
NoPositivePrefix(cash_flows) ==
    \A t \in 1..Len(cash_flows) : CumSum(cash_flows, t) <= 0

\* C12: payback_period returns infinity exactly when no prefix sum of the cash
\* flows is strictly positive, returns 0 exactly when the period-0 cash flow is
\* strictly positive, and returns a finite positive number in every other case.
C12_InfAndZeroCases ==
    (IsPayback /\ Returned) =>
        /\ ret.kind \in {"inf", "value"}
        /\ ret.kind = "inf" <=> NoPositivePrefix(args.cash_flows)
        /\ ret = Value(Zero) <=> args.cash_flows[1] > 0
        /\ (~NoPositivePrefix(args.cash_flows) /\ args.cash_flows[1] <= 0) =>
               ret.kind = "value" /\ FLess(Zero, ret.v)

\* a series with an inflow that never recovers the outlay: the result is infinity
C12_Witness ==
    /\ IsPayback
    /\ Returned
    /\ args.cash_flows = <<-2, 1, 1>>
    /\ ret.kind = "inf"

IsYtm == fn = "bond_yield_to_maturity"

\* the exception classes of the library
LibraryErrors == {"QFinBoxError", "ValidationError", "DataError", "CalculationError"}

\* the price asks for a yield below 0.001 or above 1.0: it is above the price
\* at the low end of the bracket or below the price at the high end
OutsideBracket(a) ==
    \/ FLess(bond_price(a, PyFloat(BracketLow)).v, a.price.v)
    \/ FLess(a.price.v, bond_price(a, PyFloat(BracketHigh)).v)

\* C13: bond_yield_to_maturity, on valid inputs whose yield lies outside the
\* bracket [0.001, 1.0], fails with a convergence error of the library's own
\* exception classes, one that is not the invalid-parameter error.
C13_OutOfBracketConvergenceError ==
    (IsYtm /\ Returned /\ YtmArgsValid(args, args.price) /\ OutsideBracket(args)) =>
        /\ ret.kind = "raise"
        /\ ret.exc \in LibraryErrors \ {"ValidationError"}

\* x is the grid point y or a grid point next to it
NearYield(x, y) ==
    \E i \in 1..Len(BracketGrid) :
        /\ BracketGrid[i] = y
        /\ x \in {BracketGrid[j] : j \in {i - 1, i, i + 1} \cap 1..Len(BracketGrid)}

\* C14: for all valid bond parameters, bond_yield_to_maturity of the price
\* that bond_price computed from the yield ytm returns a yield close to ytm.
C14_YieldRoundTrip ==
    (IsYtm /\ Returned /\ args.yield_to_maturity # PyNone) =>
        /\ ret.kind = "value"
        /\ NearYield(ret.v, args.yield_to_maturity.v)

\* the sum of the weights of the periods 1..t
RECURSIVE SumWeights(_, _)
SumWeights(l, t) == IF t = 0 THEN Zero ELSE FAdd(SumWeights(l, t - 1), weight(l, t))

\* C15: for all valid bond parameters, the weights bond_duration gives to the
\* periods 1..int(years x payments_per_year) (present value of the period's
\* cash flow over the bond price) sum to 1, up to rounding.
C15_WeightsSumToOne ==
    (fn = "bond_duration" /\ Returned /\ ret.kind = "value") =>
        Close(SumWeights(DurationLocals(args, args.yield_to_maturity), periods(args)), One)

\* the value is a non-number or is not strictly positive
NotStrictlyPositive(value) ==
    ~(value.t \in {"int", "float"} /\ FLess(Zero, value.v))

\* C16: every operation with positivity preconditions fails with
\* ValidationError, before any arithmetic and with no partial result, whenever
\* one of its required-positive inputs is a non-number or is not strictly
\* positive.
C16_InvalidInputRejected ==
    (fn = "checked_operation" /\ Returned
       /\ \E i \in 1..Len(TvmOps[args.op].params) : NotStrictlyPositive(args.values[i])) =>
        ret = Raise("ValidationError")

IsNpv == fn = "net_present_value"

C18_BalanceZeroOrAnnuity ==
    (fn = "loan_balance" /\ Returned /\ BalanceArgsValid(args)) =>
        IF FLeq(FMul(args.years.v, args.payments_per_year.v), args.payments_made.v)
        THEN ret = Value(Zero)
        ELSE /\ ret.kind = "value"
             /\ FLess(Zero, ret.v)
             /\ ret.v = RemainingAnnuity(loan_payment(args).v, rate_per_period(args),
                                         FSub(num_payments(args), args.payments_made.v))

\* the float product x * (1 + rate)
ScaledByRate(x, rate) == FMul(x, FAdd(One, rate))

\* C19: for all valid (payment, rate, periods), annuity_due_pv is exactly
\* ordinary_annuity_pv x (1 + rate) and annuity_due_fv is exactly
\* ordinary_annuity_fv x (1 + rate), as floats; annuity_pv and annuity_fv return
\* the due value when due is true and the ordinary value when it is false.
C19_DueIsOrdinaryTimesOnePlusRate ==
    (Returned /\ fn \in {"annuity_due_pv", "annuity_due_fv", "annuity_pv", "annuity_fv"}
       /\ AnnuityArgsValid(args)) =>
        LET pv == ordinary_annuity_pv(args).v
            fv == ordinary_annuity_fv(args).v
        IN /\ fn = "annuity_due_pv" => ret = Value(ScaledByRate(pv, args.rate.v))
           /\ fn = "annuity_due_fv" => ret = Value(ScaledByRate(fv, args.rate.v))
           /\ fn = "annuity_pv" =>
                  ret = Value(IF args.due THEN ScaledByRate(pv, args.rate.v) ELSE pv)
           /\ fn = "annuity_fv" =>
                  ret = Value(IF args.due THEN ScaledByRate(fv, args.rate.v) ELSE fv)

\* annuity_pv was called with due = True and returned the due value, which is
\* above the ordinary one
C19_Witness ==
    /\ fn = "annuity_pv"
    /\ Returned
    /\ args.due
    /\ args.periods = PyInt(3)
    /\ ret.kind = "value"
    /\ ret = annuity_due_pv(args)
    /\ FLess(ordinary_annuity_pv(args).v, ret.v)

\* the call, accepted by the operation's validation, evaluated a division by
\* zero: net_present_value at 1 + discount_rate = 0 with a period after period
\* 0, profitability_index with a period-0 cash flow of 0, payback_period with a
\* zero cash flow at the break-even period, loan_payment and loan_balance with
\* (1 + rate_per_period) ** num_payments - 1 = 0
ZeroDenominator ==
    \/ /\ IsNpv
       /\ args.discount_rate.t \in {"int", "float"}
       /\ FAdd(One, args.discount_rate.v) = Zero
       /\ Len(args.cash_flows) >= 2
    \/ /\ fn = "profitability_index"
       /\ validate_positive(args.discount_rate)
       /\ args.cash_flows[1] = 0
    \/ /\ IsPayback
       /\ \E t \in 2..Len(args.cash_flows) :
              /\ CumSum(args.cash_flows, t) > 0
              /\ \A u \in 1..(t - 1) : CumSum(args.cash_flows, u) <= 0
              /\ args.cash_flows[t] = 0
    \/ /\ fn = "loan_payment" \/ (fn = "loan_balance" /\ ~AllPaymentsMade(args))
       /\ IF fn = "loan_payment" THEN LoanArgsValid(args) ELSE BalanceArgsValid(args)
       /\ FPow(FAdd(One, rate_per_period(args)), num_payments(args)) = One

\* C20: for every input that an operation's own validation accepts, an
\* operation that evaluates a division by zero ends in an error; it never
\* returns a number (net_present_value at discount_rate = -1,
\* profitability_index with a period-0 cash flow of 0, the interpolation of
\* payback_period).
C20_NoSilentDivisionByZero ==
    (Returned /\ ZeroDenominator) => ret.kind = "raise"

\* the principal less the Principal portions of the first n entries of s, taken
\* off one at a time in the order of the entries
RECURSIVE PrincipalLess(_, _)
PrincipalLess(s, n) ==
    IF n = 0 THEN args.principal.v ELSE FSub(PrincipalLess(s, n - 1), s[n].Principal)

\* C21: conservation in amortization_schedule: after every iteration of the
\* loop, one in which `if balance < 0` fired included, the current balance
\* equals the original principal minus the Principal portions of all the
\* entries appended so far.
C21_Conservation ==
    (IsAmort /\ ret.kind # "raise") =>
        balance = PrincipalLess(schedule, Len(schedule))

====
